---------------------------- MODULE Spec2Model ----------------------------
(***************************************************************************)
(* A model of essan_ga.py: the fitness evaluator and the genetic-algorithm *)
(* engine that evolves chains of Essan symbols.                            *)
(*                                                                         *)
(* A symbol chain (a Python str) is a sequence of one-character symbols.   *)
(* Real numbers are exact fractions [n |-> numerator, d |-> denominator]   *)
(* with d > 0.  Every random draw of the program is a nondeterministic     *)
(* choice.                                                                 *)
(***************************************************************************)
EXTENDS Integers, Sequences, FiniteSets, TLC

VARIABLES
    \* run_genetic_algorithm: its parameters
    task_description, modified_task_description, weights,
    population_size, num_generations, symbol_set, mutation_rate,
    \* run_genetic_algorithm: its locals
    population, fitnesses, new_population, generation, pair_index, best_chain,
    \* where run_genetic_algorithm stands
    pc,
    \* history: Replace steps taken, symbols mutated, lengths generated
    replace_steps, mutations, initial_lengths,
    \* a single call of one function (select_parents, crossover,
    \* calculate_task_accuracy) and what it gave back
    call, ret

vars == <<task_description, modified_task_description, weights,
          population_size, num_generations, symbol_set, mutation_rate,
          population, fitnesses, new_population, generation, pair_index,
          best_chain, pc, replace_steps, mutations, initial_lengths,
          call, ret>>

ga_vars == <<task_description, modified_task_description, weights,
             population_size, num_generations, symbol_set, mutation_rate,
             population, fitnesses, new_population, generation, pair_index,
             best_chain, pc, replace_steps, mutations, initial_lengths>>

(***************************************************************************)
(* Exact arithmetic on fractions.                                          *)
(***************************************************************************)
Abs(x) == IF x < 0 THEN -x ELSE x

Min(a, b) == IF a <= b THEN a ELSE b

RECURSIVE GCD(_, _)
GCD(a, b) == IF b = 0 THEN a ELSE GCD(b, a % b)

Frac(n, d) ==
    LET g == GCD(Abs(n), d)
    IN  [n |-> n \div g, d |-> d \div g]

Zero == Frac(0, 1)
One == Frac(1, 1)

FAdd(a, b) == Frac(a.n * b.d + b.n * a.d, a.d * b.d)
FMul(a, b) == Frac(a.n * b.n, a.d * b.d)
FLess(a, b) == a.n * b.d < b.n * a.d
FLeq(a, b) == a.n * b.d <= b.n * a.d
FMax(a, b) == IF FLess(a, b) THEN b ELSE a
FMin(a, b) == IF FLess(b, a) THEN b ELSE a

Range(s) == {s[i] : i \in DOMAIN s}

(***************************************************************************)
(* The symbol vocabulary.  Each symbol is written by an ASCII name, the    *)
(* first keyword of its entry in capitals: "ESSENCE" is U+29BF, "CONNECT"  *)
(* U+29C8, "INITIATE" U+29EC, "MOVE" U+2AF0, "CYCLE" U+29FF, "CHANGE"      *)
(* U+25EC, "STRENGTH" U+29C9, "DECLARE" U+2A58, "QUERY" U+2A49, "DIMINISH" *)
(* U+237E, "PURPOSE" U+29FE, "BOUNDARY" U+2551.                            *)
(***************************************************************************)
ESSAN_SYMBOL_KEYWORDS ==
    [s \in {"ESSENCE", "CONNECT", "INITIATE", "MOVE", "CYCLE", "CHANGE", "STRENGTH", "DECLARE", "QUERY", "DIMINISH", "PURPOSE", "BOUNDARY"} |->
       CASE s = "ESSENCE" -> <<"essence", "core", "being", "entity", "concept", "identity">>
         [] s = "CONNECT" -> <<"connect", "relate", "link", "join", "combine", "interact",
                         "network", "relationship", "bond", "synergy">>
         [] s = "INITIATE" -> <<"initiate", "begin", "start", "trigger", "activate",
                         "originate", "commence", "launch", "introduce">>
         [] s = "MOVE" -> <<"move", "flow", "act", "transform", "change", "progress",
                         "evolve", "shift", "transition", "dynamic", "adapt">>
         [] s = "CYCLE" -> <<"cycle", "repeat", "recur", "iterate", "loop", "feedback",
                         "reiterate", "oscillate">>
         [] s = "CHANGE" -> <<"change", "transform", "adapt", "evolve", "modify", "shift",
                         "mutate", "alter", "vary", "adjust">>
         [] s = "STRENGTH" -> <<"strength", "amplify", "intensify", "enhance", "reinforce",
                         "boost", "augment", "magnify", "increase", "power">>
         [] s = "DECLARE" -> <<"declare", "confirm", "finalize", "complete", "conclude",
                         "finish", "end", "resolve", "affirm", "verify">>
         [] s = "QUERY" -> <<"query", "inquire", "question", "explore", "investigate",
                         "probe", "examine", "research", "seek", "discover">>
         [] s = "DIMINISH" -> <<"diminish", "limit", "reduce", "restrict", "constrain",
                         "control", "moderate", "regulate", "contain">>
         [] s = "PURPOSE" -> <<"purpose", "intention", "goal", "objective", "aim", "target",
                         "intent", "motive", "reason", "drive">>
         [] OTHER   -> <<"boundary", "limit", "barrier", "constraint", "restriction",
                         "border", "edge", "threshold", "fence", "wall">>]

(***************************************************************************)
(* The external NLP pipeline (spaCy) and lexical database (WordNet), fixed *)
(* to the fragment that the task descriptions of this model reach.  A task *)
(* description is [is_str |-> BOOLEAN, words |-> sequence of words]; one   *)
(* that is no string makes task_description.lower() raise.                 *)
(***************************************************************************)
Str(words) == [is_str |-> TRUE, words |-> words]

NotAString == [is_str |-> FALSE, words |-> <<>>]

Lower(word) ==
    CASE word = "Connect" -> "connect"
      [] word = "Relate"  -> "relate"
      [] word = "Bicycle" -> "bicycle"
      [] word = "Analyze" -> "analyze"
      [] word = "Repeat"  -> "repeat"
      [] OTHER            -> word

StopWords == {"the", "to", "a", "and"}

IsAlpha(word) == word \notin {".", ",", "2"}

Lemma(word) ==
    CASE word = "loops"  -> "loop"
      [] word = "cycles" -> "cycle"
      [] word = "sales"  -> "sale"
      [] word = "dots"   -> "dot"
      [] OTHER           -> word

\* doc = nlp(text): one token per word
nlp(words) ==
    [i \in DOMAIN words |->
        [lemma_ |-> Lemma(words[i]), is_stop |-> words[i] \in StopWords,
         is_alpha |-> IsAlpha(words[i])]]

\* the lemma names of all synsets of `word`; {} when it has no synset
WordnetLemmas(word) ==
    CASE word = "cycle"   -> {"cycle", "rhythm", "round", "oscillation", "bicycle",
                              "bike", "pedal", "wheel", "motorbike", "motorcycle"}
      [] word = "connect" -> {"connect", "link", "tie", "link_up", "associate",
                              "relate", "join", "unite", "plug_in"}
      [] word = "loop"    -> {"loop", "cringle", "eyelet", "grommet", "iteration",
                              "coil", "curl", "intertwine"}
      [] word = "examine" -> {"analyze", "analyse", "study", "examine", "canvass",
                              "see", "probe", "test"}
      [] OTHER            -> {}

get_synonyms(word) ==
    IF WordnetLemmas(word) = {} THEN {word} ELSE WordnetLemmas(word)

(***************************************************************************)
(* The fitness evaluator.                                                  *)
(***************************************************************************)
\* [token.lemma_ for token in doc if not token.is_stop and token.is_alpha]
TaskElements(task) ==
    LET doc == nlp([i \in DOMAIN task.words |-> Lower(task.words[i])])
        keep(token) == ~token.is_stop /\ token.is_alpha
        content == SelectSeq(doc, keep)
    IN  [i \in DOMAIN content |-> content[i].lemma_]

\* the loop over the keywords of one symbol: the first keyword that meets
\* the task earns the credit and ends the loop (break)
RECURSIVE KeywordCredit(_, _, _)
KeywordCredit(keywords, k, task_elements) ==
    IF k > Len(keywords) THEN 0
    ELSE IF \E element \in Range(task_elements) :
                element \in get_synonyms(keywords[k]) \/ element = keywords[k]
         THEN 1
         ELSE KeywordCredit(keywords, k + 1, task_elements)

\* the loop crediting each distinct symbol once, at its first occurrence
RECURSIVE SymbolRelevance_Distinct(_, _, _)
SymbolRelevance_Distinct(symbol_chain, i, task_elements) ==
    IF i > Len(symbol_chain) THEN 0
    ELSE (IF /\ symbol_chain[i] \in DOMAIN ESSAN_SYMBOL_KEYWORDS
             /\ \A j \in 1..(i - 1) : symbol_chain[j] # symbol_chain[i]
          THEN KeywordCredit(ESSAN_SYMBOL_KEYWORDS[symbol_chain[i]], 1, task_elements)
          ELSE 0)
         + SymbolRelevance_Distinct(symbol_chain, i + 1, task_elements)

\* the loop over the symbols of the chain, from position i on
RECURSIVE SymbolRelevance(_, _, _)
SymbolRelevance(symbol_chain, i, task_elements) ==
    IF i > Len(symbol_chain) THEN 0
    ELSE (IF symbol_chain[i] \in DOMAIN ESSAN_SYMBOL_KEYWORDS
          THEN KeywordCredit(ESSAN_SYMBOL_KEYWORDS[symbol_chain[i]], 1, task_elements)
          ELSE 0)
         + SymbolRelevance(symbol_chain, i + 1, task_elements)

calculate_task_accuracy(symbol_chain, task) ==
    IF ~task.is_str THEN Zero               \* except Exception: return 0
    ELSE IF Len(symbol_chain) > 0
         THEN Frac(SymbolRelevance(symbol_chain, 1, TaskElements(task)),
                   Len(symbol_chain))
         ELSE Zero

calculate_efficiency(symbol_chain) ==
    IF Len(symbol_chain) > 0 THEN Frac(1, Len(symbol_chain)) ELSE Zero

calculate_adaptability(symbol_chain, original_task, modified_task) ==
    FMul(FAdd(calculate_task_accuracy(symbol_chain, original_task),
              calculate_task_accuracy(symbol_chain, modified_task)),
         Frac(1, 2))

Count(symbol_chain, symbol) ==
    Cardinality({i \in DOMAIN symbol_chain : symbol_chain[i] = symbol})

calculate_recursive_depth(symbol_chain) ==
    Min(Count(symbol_chain, "CYCLE"), 1)

\* calculate_user_satisfaction without the clamp to [0, 1]
calculate_user_satisfaction_Unclamped(symbol_chain, task, noise) ==
    LET accuracy == calculate_task_accuracy(symbol_chain, task)
        length_preference ==
            IF Len(symbol_chain) < 15 THEN Frac(9, 10) ELSE Frac(7, 10)
        recursion_present ==
            IF "CYCLE" \in Range(symbol_chain) THEN Frac(95, 100) ELSE Frac(8, 10)
        distinct == Cardinality(Range(symbol_chain))
        diversity_factor == IF distinct > 0 THEN Frac(1, distinct) ELSE Zero
    IN  FAdd(FAdd(FAdd(FAdd(FMul(Frac(5, 10), accuracy),
                            FMul(Frac(2, 10), length_preference)),
                       FMul(Frac(2, 10), recursion_present)),
                  FMul(Frac(1, 10), diversity_factor)),
             noise)

\* `noise` is the value random.uniform(-0.1, 0.1) gives
calculate_user_satisfaction(symbol_chain, task, noise) ==
    LET accuracy == calculate_task_accuracy(symbol_chain, task)
        length_preference ==
            IF Len(symbol_chain) < 15 THEN Frac(9, 10) ELSE Frac(7, 10)
        recursion_present ==
            IF "CYCLE" \in Range(symbol_chain) THEN Frac(95, 100) ELSE Frac(8, 10)
        distinct == Cardinality(Range(symbol_chain))
        diversity_factor == IF distinct > 0 THEN Frac(1, distinct) ELSE Zero
        satisfaction ==
            FAdd(FAdd(FAdd(FAdd(FMul(Frac(5, 10), accuracy),
                                FMul(Frac(2, 10), length_preference)),
                           FMul(Frac(2, 10), recursion_present)),
                      FMul(Frac(1, 10), diversity_factor)),
                 noise)
    IN  FMax(Zero, FMin(One, satisfaction))

WeightKeys == {"accuracy", "efficiency", "adaptability", "recursion",
               "user_satisfaction"}

\* weights[key] raises KeyError when the map lacks the key
FitnessRaises(w) == ~(WeightKeys \subseteq DOMAIN w)

calculate_fitness(symbol_chain, task, modified_task, w, noise) ==
    LET accuracy == calculate_task_accuracy(symbol_chain, task)
        efficiency == calculate_efficiency(symbol_chain)
        adaptability == calculate_adaptability(symbol_chain, task, modified_task)
        recursion == Frac(calculate_recursive_depth(symbol_chain), 1)
        user_satisfaction == calculate_user_satisfaction(symbol_chain, task, noise)
    IN  FAdd(FAdd(FAdd(FAdd(FMul(Frac(w["accuracy"], 1), accuracy),
                            FMul(Frac(w["efficiency"], 1), efficiency)),
                       FMul(Frac(w["adaptability"], 1), adaptability)),
                  FMul(Frac(w["recursion"], 1), recursion)),
             FMul(Frac(w["user_satisfaction"], 1), user_satisfaction))

(***************************************************************************)
(* The operators of the engine.  Python indexes from 0, the model from 1.  *)
(***************************************************************************)
min_length == 5
max_length == 20

\* Bounds of the model: the generations of a run, and the symbols that
\* mutate flips in a run
MaxGenerations == 2
MaxMutations == 1
\* Bounds of the single calls: the length of a chain, the size of a population
MaxChainLength == 3
MaxSelectPopulation == 4

\* "".join(random.choice(symbol_set) for _ in range(chain_length)) where
\* every draw gives the k-th symbol
Repeat(symbols, k, chain_length) == [i \in 1..chain_length |-> symbols[k]]

\* the chains the initial population draws here: chain_length is
\* random.randint(min_length, max_length); the shortest chain repeats the
\* first symbol and the next length repeats the last
ChainsDrawn(symbols) ==
    {Repeat(symbols, 1, min_length),
     Repeat(symbols, Len(symbols), Min(min_length + 1, max_length))}

\* random.choice(symbol_set) raises IndexError on an empty symbol_set
GenerateRaises(size, symbols) == size > 0 /\ symbols = <<>>

generate_initial_population(size, symbols) ==
    IF size <= 0 THEN {<<>>}
    ELSE [1..size -> ChainsDrawn(symbols)]

\* random.randint(1, min(len(parent1), len(parent2)) - 1)
CrossoverPoints(parent1, parent2) ==
    1 .. (Min(Len(parent1), Len(parent2)) - 1)

\* random.randint raises ValueError on an empty range
CrossoverRaises(parent1, parent2) ==
    /\ parent1 # <<>>
    /\ parent2 # <<>>
    /\ CrossoverPoints(parent1, parent2) = {}

Slice(chain, from, to) == SubSeq(chain, from, to)

\* crossover with each child's tail taken from its own parent
crossover_OwnTail(parent1, parent2, crossover_point) ==
    IF parent1 = <<>> \/ parent2 = <<>> THEN <<parent1, parent2>>
    ELSE <<Slice(parent1, 1, crossover_point)
             \o Slice(parent1, crossover_point + 1, Len(parent1)),
           Slice(parent2, 1, crossover_point)
             \o Slice(parent2, crossover_point + 1, Len(parent2))>>

\* crossover with the tails cut one symbol early
crossover_OffByOne(parent1, parent2, crossover_point) ==
    IF parent1 = <<>> \/ parent2 = <<>> THEN <<parent1, parent2>>
    ELSE <<Slice(parent1, 1, crossover_point)
             \o Slice(parent2, crossover_point, Len(parent2)),
           Slice(parent2, 1, crossover_point)
             \o Slice(parent1, crossover_point, Len(parent1))>>

crossover(parent1, parent2, crossover_point) ==
    IF parent1 = <<>> \/ parent2 = <<>> THEN <<parent1, parent2>>
    ELSE <<Slice(parent1, 1, crossover_point)
             \o Slice(parent2, crossover_point + 1, Len(parent2)),
           Slice(parent2, 1, crossover_point)
             \o Slice(parent1, crossover_point + 1, Len(parent1))>>

\* the results crossover can give (none when it raises)
CrossoverResults(parent1, parent2) ==
    IF parent1 = <<>> \/ parent2 = <<>> THEN {crossover(parent1, parent2, 0)}
    ELSE {crossover(parent1, parent2, p) : p \in CrossoverPoints(parent1, parent2)}

\* `flips` are the positions where random.random() < mutation_rate, and
\* choices[i] is what random.choice(symbol_set) gives at such a position
mutate(symbol_chain, flips, choices) ==
    [i \in DOMAIN symbol_chain |->
        IF i \in flips THEN choices[i] ELSE symbol_chain[i]]

\* random.random() is in [0, 1): a rate <= 0 never flips, a rate >= 1 always
FlipsPossible(symbol_chain, rate, budget) ==
    {F \in SUBSET DOMAIN symbol_chain :
        /\ Cardinality(F) <= budget
        /\ FLeq(rate, Zero) => F = {}
        /\ FLeq(One, rate) => F = DOMAIN symbol_chain}

\* list(ESSAN_SYMBOL_KEYWORDS.keys()), the symbol_set of a call that gives none
DefaultSymbolSet ==
    <<"ESSENCE", "CONNECT", "INITIATE", "MOVE", "CYCLE", "CHANGE", "STRENGTH",
      "DECLARE", "QUERY", "DIMINISH", "PURPOSE", "BOUNDARY">>

\* mutate drawing from the default alphabet, whatever symbol_set is
MutateResults_DefaultAlphabet(symbol_chain, symbols, rate, budget) ==
    UNION {{<<mutate(symbol_chain, F, c), Cardinality(F)>> :
                c \in [F -> Range(DefaultSymbolSet)]} :
           F \in FlipsPossible(symbol_chain, rate, budget)}

\* the results mutate can give with at most `budget` flips, each with the
\* number of its flips
MutateResults(symbol_chain, symbols, rate, budget) ==
    UNION {{<<mutate(symbol_chain, F, c), Cardinality(F)>> :
                c \in [F -> Range(symbols)]} :
           F \in FlipsPossible(symbol_chain, rate, budget)}

\* the loop with >= for >: a later member wins a tie
RECURSIVE TournamentWinner_TiesToLater(_, _, _, _)
TournamentWinner_TiesToLater(tournament, fits, winner, k) ==
    IF k > Len(tournament) THEN winner
    ELSE TournamentWinner_TiesToLater(tournament, fits,
                          IF FLeq(fits[winner], fits[tournament[k]])
                          THEN tournament[k] ELSE winner,
                          k + 1)

\* the loop over tournament[1:], from position k on
RECURSIVE TournamentWinner(_, _, _, _)
TournamentWinner(tournament, fits, winner, k) ==
    IF k > Len(tournament) THEN winner
    ELSE TournamentWinner(tournament, fits,
                          IF FLess(fits[winner], fits[tournament[k]])
                          THEN tournament[k] ELSE winner,
                          k + 1)

\* random.sample(range(len(population)), min(3, len(population)))
Tournaments(n) ==
    {t \in [1..Min(3, n) -> 1..n] : \A i, j \in DOMAIN t : i # j => t[i] # t[j]}

\* select_parents with the tournaments drawn, one for each parent
select_parents(pop, fits, tournaments) ==
    IF pop = <<>> \/ fits = <<>> THEN <<>>
    ELSE [k \in DOMAIN tournaments |->
            pop[TournamentWinner(tournaments[k], fits, tournaments[k][1], 2)]]

\* the results select_parents can give for two parents
SelectResults(pop, fits) ==
    {select_parents(pop, fits, <<t1, t2>>) : t1, t2 \in Tournaments(Len(pop))}

\* max(fitnesses), of a non-empty list
MaxOf(fits) ==
    CHOOSE m \in Range(fits) : \A f \in Range(fits) : FLeq(f, m)

\* index giving the last index that holds the value
IndexOf_Last(fits, value) ==
    CHOOSE i \in DOMAIN fits :
        /\ fits[i] = value
        /\ \A j \in DOMAIN fits : fits[j] = value => j <= i

\* fitnesses.index(value): the first index that holds the value
IndexOf(fits, value) ==
    CHOOSE i \in DOMAIN fits :
        /\ fits[i] = value
        /\ \A j \in DOMAIN fits : fits[j] = value => i <= j

(***************************************************************************)
(* The inputs of run_genetic_algorithm that the model explores.            *)
(***************************************************************************)
TaskConnect == Str(<<"Connect", "the", "dots", ".">>)
TaskRelate == Str(<<"Relate", "the", "cycles", ".">>)
TaskLoop == Str(<<"Repeat", "the", "loops", ".">>)
TaskBicycle == Str(<<"Bicycle", "to", "work">>)
TaskSales == Str(<<"Analyze", "sales", "data", ".">>)

Alphabet == <<"CONNECT", "CYCLE">>

AccuracyOnly ==
    [accuracy |-> 1, efficiency |-> 0, adaptability |-> 0, recursion |-> 0,
     user_satisfaction |-> 0]
AllZero ==
    [accuracy |-> 0, efficiency |-> 0, adaptability |-> 0, recursion |-> 0,
     user_satisfaction |-> 0]
Structural ==
    [accuracy |-> 1, efficiency |-> 1, adaptability |-> 0, recursion |-> 0,
     user_satisfaction |-> 1]
NoRecursionKey ==
    [accuracy |-> 1, efficiency |-> 1, adaptability |-> 1, user_satisfaction |-> 1]

\* <<task_description, modified_task_description, weights, symbol_set,
\*   mutation_rate>>
Inputs ==
    {<<TaskConnect, TaskRelate, AccuracyOnly, Alphabet, Frac(0, 1)>>,
     <<TaskLoop, TaskRelate, AllZero, Alphabet, Frac(1, 10)>>,
     <<NotAString, TaskBicycle, Structural, Alphabet, Frac(0, 1)>>,
     <<TaskConnect, TaskRelate, NoRecursionKey, Alphabet, Frac(1, 10)>>,
     <<TaskConnect, TaskRelate, AccuracyOnly, <<>>, Frac(1, 10)>>}

\* the population sizes: none, one chain (no pair), an even and an odd size
PopulationSizes == 0..3

\* the values random.uniform(-0.1, 0.1) gives here
NoiseDrawn == {Frac(-1, 10), Frac(1, 10)}

NoCall == [fn |-> "none", status |-> "none"]

(***************************************************************************)
(* run_genetic_algorithm, step by step.                                    *)
(***************************************************************************)
Init ==
    /\ \E input \in Inputs :
          /\ task_description = input[1]
          /\ modified_task_description = input[2]
          /\ weights = input[3]
          /\ symbol_set = input[4]
          /\ mutation_rate = input[5]
    /\ population_size \in PopulationSizes
    /\ num_generations \in 0..MaxGenerations
    /\ population = <<>>
    /\ fitnesses = <<>>
    /\ new_population = <<>>
    /\ generation = 0
    /\ pair_index = 0
    /\ best_chain = <<>>
    /\ pc = "start"
    /\ replace_steps = 0
    /\ mutations = 0
    /\ initial_lengths = {}
    /\ call = NoCall
    /\ ret = NoCall

\* population = generate_initial_population(population_size, symbol_set)
GenerateInitialPopulation ==
    /\ pc = "start"
    /\ IF GenerateRaises(population_size, symbol_set)
       THEN /\ pc' = "except"
            /\ UNCHANGED <<population, initial_lengths>>
       ELSE /\ population' \in generate_initial_population(population_size, symbol_set)
            /\ initial_lengths' = {Len(population'[i]) : i \in DOMAIN population'}
            /\ pc' = "loop"
    /\ UNCHANGED <<task_description, modified_task_description, weights,
                   population_size, num_generations, symbol_set, mutation_rate,
                   fitnesses, new_population, generation, pair_index,
                   best_chain, replace_steps, mutations, call, ret>>

\* fitnesses = [calculate_fitness(chain, ...) for chain in population]
FitnessesOf(pop, noise) ==
    [i \in DOMAIN pop |->
        calculate_fitness(pop[i], task_description, modified_task_description,
                          weights, noise[i])]

\* the evaluation that opens a generation, or the one after the last
Evaluate ==
    /\ pc = "loop"
    /\ IF population # <<>> /\ FitnessRaises(weights)
       THEN /\ pc' = "except"
            /\ UNCHANGED <<fitnesses, new_population, pair_index>>
       ELSE /\ \E noise \in [DOMAIN population -> NoiseDrawn] :
                  fitnesses' = FitnessesOf(population, noise)
            /\ IF generation < num_generations
               THEN /\ new_population' = <<>>
                    /\ pair_index' = 0
                    /\ pc' = "pairs"
               ELSE /\ UNCHANGED <<new_population, pair_index>>
                    /\ pc' = "best"
    /\ UNCHANGED <<task_description, modified_task_description, weights,
                   population_size, num_generations, symbol_set, mutation_rate,
                   population, generation, best_chain, replace_steps, mutations,
                   initial_lengths, call, ret>>

\* one pass of the loop over range(population_size // 2)
BreedPair ==
    /\ pc = "pairs"
    /\ pair_index < population_size \div 2
    /\ \E parents \in SelectResults(population, fitnesses) :
              IF Len(parents) < 2
              THEN /\ pair_index' = pair_index + 1
                   /\ UNCHANGED <<new_population, mutations, pc>>
              ELSE IF CrossoverRaises(parents[1], parents[2])
              THEN /\ pc' = "except"
                   /\ UNCHANGED <<new_population, mutations, pair_index>>
              ELSE \E children \in CrossoverResults(parents[1], parents[2]) :
                   \E m1 \in MutateResults(children[1], symbol_set, mutation_rate,
                                           MaxMutations - mutations) :
                   \E m2 \in MutateResults(children[2], symbol_set, mutation_rate,
                                           MaxMutations - mutations - m1[2]) :
                      /\ new_population' = new_population \o <<m1[1], m2[1]>>
                      /\ mutations' = mutations + m1[2] + m2[2]
                      /\ pair_index' = pair_index + 1
                      /\ UNCHANGED pc
    /\ UNCHANGED <<task_description, modified_task_description, weights,
                   population_size, num_generations, symbol_set, mutation_rate,
                   population, fitnesses, generation, best_chain, replace_steps,
                   initial_lengths, call, ret>>

\* Replace without the test "if new_population"
Replace_Unconditional ==
    /\ pc = "pairs"
    /\ pair_index >= population_size \div 2
    /\ population' = new_population
    /\ generation' = generation + 1
    /\ replace_steps' = replace_steps + 1
    /\ pc' = "loop"
    /\ UNCHANGED <<task_description, modified_task_description, weights,
                   population_size, num_generations, symbol_set, mutation_rate,
                   fitnesses, new_population, pair_index, best_chain, mutations,
                   initial_lengths, call, ret>>

\* if new_population: population = new_population; then the next generation
Replace ==
    /\ pc = "pairs"
    /\ pair_index >= population_size \div 2
    /\ population' = IF new_population # <<>> THEN new_population ELSE population
    /\ generation' = generation + 1
    /\ replace_steps' = replace_steps + 1
    /\ pc' = "loop"
    /\ UNCHANGED <<task_description, modified_task_description, weights,
                   population_size, num_generations, symbol_set, mutation_rate,
                   fitnesses, new_population, pair_index, best_chain, mutations,
                   initial_lengths, call, ret>>

\* best_chain = population[fitnesses.index(max(fitnesses))]; max raises
\* ValueError on an empty list
ReturnBest ==
    /\ pc = "best"
    /\ IF fitnesses = <<>>
       THEN /\ pc' = "except"
            /\ UNCHANGED best_chain
       ELSE /\ best_chain' = population[IndexOf(fitnesses, MaxOf(fitnesses))]
            /\ pc' = "returned"
    /\ UNCHANGED <<task_description, modified_task_description, weights,
                   population_size, num_generations, symbol_set, mutation_rate,
                   population, fitnesses, new_population, generation, pair_index,
                   replace_steps, mutations, initial_lengths, call, ret>>

\* "".join(random.choice(symbol_set) for _ in range(5))
FallbackChains(symbols) == {Repeat(symbols, k, 5) : k \in DOMAIN symbols}

\* except Exception: return a random chain; random.choice raises IndexError
\* on an empty symbol_set, and nothing catches it
Fallback ==
    /\ pc = "except"
    /\ IF symbol_set = <<>>
       THEN /\ pc' = "raised"
            /\ UNCHANGED best_chain
       ELSE /\ best_chain' \in FallbackChains(symbol_set)
            /\ pc' = "fallback"
    /\ UNCHANGED <<task_description, modified_task_description, weights,
                   population_size, num_generations, symbol_set, mutation_rate,
                   population, fitnesses, new_population, generation, pair_index,
                   replace_steps, mutations, initial_lengths, call, ret>>

Next ==
    \/ GenerateInitialPopulation
    \/ Evaluate
    \/ BreedPair
    \/ Replace
    \/ ReturnBest
    \/ Fallback

Spec == Init /\ [][Next]_vars

(***************************************************************************)
(* Properties of a run.                                                    *)
(***************************************************************************)
AtGenerationStart == pc = "loop" /\ generation < num_generations

Chains(pop) == Range(pop)

OverAlphabet(chain) == Range(chain) \subseteq Range(symbol_set)

\* C1: run_genetic_algorithm never raises to its caller: whenever an error
\* occurs in the run, the call returns a random chain of 5 symbols of the
\* configured alphabet.
C1_NeverRaises ==
    /\ pc # "raised"
    /\ pc = "fallback" => Len(best_chain) = 5 /\ OverAlphabet(best_chain)

\* C2: at the start of every generation the population holds exactly
\* population_size chains, for every population_size >= 1, odd sizes
\* included, unless no parent pair was produced in the generation before.
C2_SizeIsConfigured ==
    (/\ AtGenerationStart
     /\ population_size >= 1
     /\ ~(generation > 0 /\ population_size \div 2 = 0))
    => Len(population) = population_size

\* C2, amended: at the start of generation 0 the population holds
\* population_size chains; at the start of every later generation it holds
\* 2 * (population_size // 2) chains, one less than an odd population_size,
\* and population_size chains when no pair is bred (population_size = 1).
C2_SizeIsEvenAfterReplace ==
    (AtGenerationStart /\ population_size >= 1)
    => Len(population) =
          IF generation = 0 \/ population_size \div 2 = 0
          THEN population_size
          ELSE 2 * (population_size \div 2)

C2_Witness ==
    /\ AtGenerationStart
    /\ generation >= 1
    /\ population_size = 3
    /\ Len(population) = 2

\* C3: every chain of the population, in every state of a run, and the chain
\* returned, holds only symbols of the configured symbol set.
C3_SymbolsOfTheSet ==
    /\ \A chain \in Chains(population) \cup Chains(new_population) :
          OverAlphabet(chain)
    /\ pc \in {"returned", "fallback"} => OverAlphabet(best_chain)

C3_Witness ==
    /\ pc = "returned"
    /\ replace_steps >= 2
    /\ mutations >= 1
    /\ Cardinality(Range(best_chain)) = 2

\* C4: a run that returns has taken exactly num_generations Replace steps,
\* has evaluated the final population once more, and returns the chain at
\* the lowest index among those of maximum fitness in that evaluation.
C4_BestOfFinalPopulation ==
    pc = "returned" =>
        /\ replace_steps = num_generations
        /\ generation = num_generations
        /\ \E noise \in [DOMAIN population -> NoiseDrawn] :
              fitnesses = FitnessesOf(population, noise)
        /\ \E i \in DOMAIN population :
              /\ best_chain = population[i]
              /\ \A j \in DOMAIN population : FLeq(fitnesses[j], fitnesses[i])
              /\ \A j \in 1..(i - 1) : FLess(fitnesses[j], fitnesses[i])

C4_Witness ==
    /\ pc = "returned"
    /\ num_generations >= 2
    /\ \E i, j \in DOMAIN population :
          /\ i < j
          /\ population[i] # population[j]
          /\ fitnesses[i] = fitnesses[j]
          /\ fitnesses[i] = MaxOf(fitnesses)

InUnitInterval(x) == FLeq(Zero, x) /\ FLeq(x, One)

\* C9: for every chain of the population, in every generation, task
\* accuracy, adaptability and user satisfaction lie in [0, 1], efficiency
\* lies in (0, 1], and recursive depth is 0 or 1.  (The population changes
\* only on entering pc = "loop", where each generation is evaluated.)
C9_SubMetricsInRange ==
    pc = "loop" =>
    \A chain \in Chains(population) :
        /\ InUnitInterval(calculate_task_accuracy(chain, task_description))
        /\ InUnitInterval(calculate_task_accuracy(chain, modified_task_description))
        /\ InUnitInterval(calculate_adaptability(chain, task_description,
                                                 modified_task_description))
        /\ \A noise \in NoiseDrawn :
              InUnitInterval(calculate_user_satisfaction(chain, task_description,
                                                         noise))
        /\ FLess(Zero, calculate_efficiency(chain))
        /\ FLeq(calculate_efficiency(chain), One)
        /\ calculate_recursive_depth(chain) \in {0, 1}

\* a generation after the first holds a chain whose user satisfaction is cut
\* to 1 and a chain that scores strictly between 0 and 1
C9_Witness ==
    /\ pc = "loop"
    /\ generation >= 1
    /\ \E chain \in Chains(population) :
          calculate_user_satisfaction(chain, task_description, Frac(1, 10)) = One
    /\ \E chain \in Chains(population) :
          /\ FLess(Zero, calculate_task_accuracy(chain, task_description))
          /\ FLess(calculate_task_accuracy(chain, task_description), One)

\* C10: in every generation every chain of the population has a length that
\* a chain of the initial population had, hence one in min_length..max_length:
\* crossover gives child1 the length of parent2 and child2 that of parent1,
\* mutate keeps the length, and the range of crossover points of any two
\* chains of the population is never empty.
C10_LengthsStay ==
    /\ \A chain \in Chains(population) \cup Chains(new_population) :
          /\ Len(chain) \in initial_lengths
          /\ Len(chain) \in min_length..max_length
          /\ \A m \in MutateResults(chain, symbol_set, mutation_rate, 1) :
                Len(m[1]) = Len(chain)
    /\ \A parent1, parent2 \in Chains(population) :
          /\ CrossoverPoints(parent1, parent2) # {}
          /\ ~CrossoverRaises(parent1, parent2)
          /\ \A children \in CrossoverResults(parent1, parent2) :
                /\ Len(children[1]) = Len(parent2)
                /\ Len(children[2]) = Len(parent1)

C10_Witness ==
    /\ pc = "loop"
    /\ generation >= 2
    /\ mutations >= 1
    /\ {Len(chain) : chain \in Chains(population)} = {min_length, min_length + 1}

(***************************************************************************)
(* Single calls of crossover, select_parents and calculate_task_accuracy,  *)
(* outside a run: the engine is idle.                                      *)
(***************************************************************************)
Idle ==
    /\ task_description = TaskConnect
    /\ modified_task_description = TaskRelate
    /\ weights = AccuracyOnly
    /\ population_size = 0
    /\ num_generations = 0
    /\ symbol_set = Alphabet
    /\ mutation_rate = Zero
    /\ population = <<>>
    /\ fitnesses = <<>>
    /\ new_population = <<>>
    /\ generation = 0
    /\ pair_index = 0
    /\ best_chain = <<>>
    /\ pc = "idle"
    /\ replace_steps = 0
    /\ mutations = 0
    /\ initial_lengths = {}

\* all chains over `symbols` of at most `len` symbols
ChainsUpTo(symbols, len) == UNION {[1..n -> symbols] : n \in 0..len}

---------------------------------------------------------------------------
\* crossover(parent1, parent2)
InitCrossover ==
    /\ Idle
    /\ \E parent1, parent2 \in ChainsUpTo(Range(Alphabet), MaxChainLength) :
          call = [fn |-> "crossover", parent1 |-> parent1, parent2 |-> parent2]
    /\ ret = NoCall

\* if not parent1 or not parent2: return parent1, parent2
CrossoverEmptyParent ==
    /\ call.fn = "crossover"
    /\ ret = NoCall
    /\ call.parent1 = <<>> \/ call.parent2 = <<>>
    /\ ret' = [fn |-> "crossover", status |-> "returned", crossover_point |-> 0,
               value |-> crossover(call.parent1, call.parent2, 0)]
    /\ UNCHANGED <<ga_vars, call>>

\* a crossover point is drawn and the children are returned
CrossoverCut ==
    /\ call.fn = "crossover"
    /\ ret = NoCall
    /\ call.parent1 # <<>> /\ call.parent2 # <<>>
    /\ \E crossover_point \in CrossoverPoints(call.parent1, call.parent2) :
          ret' = [fn |-> "crossover", status |-> "returned",
                  crossover_point |-> crossover_point,
                  value |-> crossover(call.parent1, call.parent2, crossover_point)]
    /\ UNCHANGED <<ga_vars, call>>

\* random.randint(1, 0) raises ValueError, which crossover does not catch
CrossoverValueError ==
    /\ call.fn = "crossover"
    /\ ret = NoCall
    /\ CrossoverRaises(call.parent1, call.parent2)
    /\ ret' = [fn |-> "crossover", status |-> "raised", crossover_point |-> 0,
               value |-> <<>>]
    /\ UNCHANGED <<ga_vars, call>>

NextCrossover ==
    \/ CrossoverEmptyParent
    \/ CrossoverCut
    \/ CrossoverValueError

SpecCrossover == InitCrossover /\ [][NextCrossover]_vars

---------------------------------------------------------------------------
\* select_parents(population, fitnesses, num_parents=2); the population of
\* the call holds the chains of 1, 2, ... symbols
FitnessesDrawn == {Frac(0, 1), Frac(1, 2), Frac(1, 1)}

InitSelect ==
    /\ Idle
    /\ \E n \in 0..MaxSelectPopulation :
       \E fits \in [1..n -> FitnessesDrawn] :
          call = [fn |-> "select_parents",
                  population |-> [i \in 1..n |-> Repeat(Alphabet, 1, i)],
                  fitnesses |-> fits, num_parents |-> 2]
    /\ ret = [fn |-> "select_parents", status |-> "running", tournament |-> <<>>,
              parents |-> <<>>]

\* if not population or not fitnesses: return []
SelectNothing ==
    /\ call.fn = "select_parents"
    /\ ret.status = "running"
    /\ call.population = <<>> \/ call.fitnesses = <<>>
    /\ ret' = [ret EXCEPT !.status = "returned"]
    /\ UNCHANGED <<ga_vars, call>>

\* one pass of the loop over range(num_parents): a tournament is drawn and
\* its winner appended
SelectOneParent ==
    /\ call.fn = "select_parents"
    /\ ret.status = "running"
    /\ call.population # <<>> /\ call.fitnesses # <<>>
    /\ Len(ret.parents) < call.num_parents
    /\ \E tournament \in Tournaments(Len(call.population)) :
          ret' = [ret EXCEPT
                    !.tournament = tournament,
                    !.parents = ret.parents \o
                        select_parents(call.population, call.fitnesses,
                                       <<tournament>>)]
    /\ UNCHANGED <<ga_vars, call>>

\* return parents
SelectReturn ==
    /\ call.fn = "select_parents"
    /\ ret.status = "running"
    /\ call.population # <<>> /\ call.fitnesses # <<>>
    /\ Len(ret.parents) = call.num_parents
    /\ ret' = [ret EXCEPT !.status = "returned"]
    /\ UNCHANGED <<ga_vars, call>>

NextSelect ==
    \/ SelectNothing
    \/ SelectOneParent
    \/ SelectReturn

SpecSelect == InitSelect /\ [][NextSelect]_vars

---------------------------------------------------------------------------
\* calculate_task_accuracy(symbol_chain, task_description); "UNKNOWN" is a
\* symbol that the vocabulary does not hold
AccuracySymbols == {"CONNECT", "CYCLE", "ESSENCE", "UNKNOWN"}

AccuracyTasks == {TaskConnect, TaskRelate, TaskLoop, TaskBicycle, TaskSales,
                  Str(<<>>), NotAString}

InitAccuracy ==
    /\ Idle
    /\ \E symbol_chain \in ChainsUpTo(AccuracySymbols, MaxChainLength) :
       \E task \in AccuracyTasks :
          call = [fn |-> "calculate_task_accuracy",
                  symbol_chain |-> symbol_chain, task_description |-> task]
    /\ ret = NoCall

\* the body of the try block
AccuracyScore ==
    /\ call.fn = "calculate_task_accuracy"
    /\ ret = NoCall
    /\ call.task_description.is_str
    /\ ret' = [fn |-> "calculate_task_accuracy", status |-> "returned",
               value |-> calculate_task_accuracy(call.symbol_chain,
                                                 call.task_description)]
    /\ UNCHANGED <<ga_vars, call>>

\* except Exception: return 0
AccuracyFailure ==
    /\ call.fn = "calculate_task_accuracy"
    /\ ret = NoCall
    /\ ~call.task_description.is_str
    /\ ret' = [fn |-> "calculate_task_accuracy", status |-> "returned",
               value |-> calculate_task_accuracy(call.symbol_chain,
                                                 call.task_description)]
    /\ UNCHANGED <<ga_vars, call>>

NextAccuracy ==
    \/ AccuracyScore
    \/ AccuracyFailure

SpecAccuracy == InitAccuracy /\ [][NextAccuracy]_vars

(***************************************************************************)
(* Properties of the single calls.                                         *)
(***************************************************************************)
\* C5: for a non-empty population each parent select_parents appends is the
\* member of a sample of min(3, population size) distinct indices with the
\* greatest fitness of the sample, the earliest drawn winning ties; so its
\* fitness is never below the least fitness of the sample; and the call
\* returns one parent for each parent requested.
C5_TournamentWinner ==
    (call.fn = "select_parents" /\ Len(ret.parents) >= 1) =>
        LET pop == call.population
            fits == call.fitnesses
            t == ret.tournament
            parent == ret.parents[Len(ret.parents)]
        IN  /\ Len(t) = Min(3, Len(pop))
            /\ Range(t) \subseteq DOMAIN pop
            /\ Cardinality(Range(t)) = Len(t)
            /\ \E k \in DOMAIN t :
                  /\ parent = pop[t[k]]
                  /\ \A j \in DOMAIN t : FLeq(fits[t[j]], fits[t[k]])
                  /\ \A j \in 1..(k - 1) : FLess(fits[t[j]], fits[t[k]])
            /\ \A i \in DOMAIN pop :
                  pop[i] = parent =>
                      \E j \in DOMAIN t : FLeq(fits[t[j]], fits[i])
            /\ ret.status = "returned" => Len(ret.parents) = call.num_parents

\* a sample of 3 out of 4 in which two members tie for the maximum, the
\* earlier drawn has the higher index, and the third is strictly worse
C5_Witness ==
    /\ call.fn = "select_parents"
    /\ ret.status = "returned"
    /\ Len(call.population) = 4
    /\ Len(ret.parents) = 2
    /\ LET t == ret.tournament
           fits == call.fitnesses
       IN  /\ fits[t[1]] = fits[t[2]]
           /\ t[1] > t[2]
           /\ FLess(fits[t[3]], fits[t[1]])
           /\ ret.parents[2] = call.population[t[1]]

\* C6: crossover of two non-empty parents returns, for one point p in
\* 1 .. min(len(parent1), len(parent2)) - 1, child1 = the first p symbols of
\* parent1 followed by parent2 from index p on, and child2 the symmetric
\* swap; with parents of one length L both children have length L and each
\* position holds the symbol that one of the parents has there.
C6_Recombination ==
    (/\ call.fn = "crossover"
     /\ ret.status = "returned"
     /\ call.parent1 # <<>>
     /\ call.parent2 # <<>>) =>
        LET parent1 == call.parent1
            parent2 == call.parent2
            child1 == ret.value[1]
            child2 == ret.value[2]
        IN  /\ \E p \in 1..(Min(Len(parent1), Len(parent2)) - 1) :
                  /\ child1 = [i \in 1..Len(parent2) |->
                                  IF i <= p THEN parent1[i] ELSE parent2[i]]
                  /\ child2 = [i \in 1..Len(parent1) |->
                                  IF i <= p THEN parent2[i] ELSE parent1[i]]
            /\ Len(parent1) = Len(parent2) =>
                  /\ Len(child1) = Len(parent1)
                  /\ Len(child2) = Len(parent1)
                  /\ \A i \in DOMAIN parent1 :
                        /\ child1[i] \in {parent1[i], parent2[i]}
                        /\ child2[i] \in {parent1[i], parent2[i]}

C6_Witness ==
    /\ call.fn = "crossover"
    /\ ret.status = "returned"
    /\ Len(call.parent1) = 3
    /\ Len(call.parent2) = 3
    /\ ret.crossover_point = 2
    /\ ret.value[1] \notin {call.parent1, call.parent2}

\* C7: crossover of two non-empty parents of which the shorter has one
\* symbol handles the error of the empty range itself and returns the two
\* parents unchanged.
C7_DegenerateReturnsParents ==
    (/\ call.fn = "crossover"
     /\ ret.status # "none"
     /\ call.parent1 # <<>>
     /\ call.parent2 # <<>>
     /\ Min(Len(call.parent1), Len(call.parent2)) = 1) =>
        /\ ret.status = "returned"
        /\ ret.value = <<call.parent1, call.parent2>>

\* a symbol of the vocabulary one of whose keywords is, or has as a synonym,
\* a content word of the task
Relevant(symbol, task) ==
    /\ symbol \in DOMAIN ESSAN_SYMBOL_KEYWORDS
    /\ \E keyword \in Range(ESSAN_SYMBOL_KEYWORDS[symbol]) :
       \E element \in Range(TaskElements(task)) :
          element = keyword \/ element \in get_synonyms(keyword)

\* C8: calculate_task_accuracy counts occurrences: the score of a non-empty
\* chain is the number of its positions that hold a relevant symbol, divided
\* by its length; it is 0 for an empty chain and 0 when tokenization fails.
C8_CountsOccurrences ==
    (call.fn = "calculate_task_accuracy" /\ ret.status = "returned") =>
        LET chain == call.symbol_chain
            task == call.task_description
        IN  ret.value =
                IF ~task.is_str \/ chain = <<>> THEN Zero
                ELSE Frac(Cardinality({i \in DOMAIN chain : Relevant(chain[i], task)}),
                          Len(chain))

\* a relevant symbol twice and a symbol that is not relevant: 2/3
C8_Witness ==
    /\ call.fn = "calculate_task_accuracy"
    /\ ret.status = "returned"
    /\ Len(call.symbol_chain) = 3
    /\ call.symbol_chain[1] = call.symbol_chain[3]
    /\ call.symbol_chain[2] = "UNKNOWN"
    /\ ret.value = Frac(2, 3)

=============================================================================
